---- MODULE Spec2Model ----
(***************************************************************************)
(* Model of alpinify.py: the traversal driver (main) and the folder        *)
(* allocator (get_band_dest_directory / create_new_band_directory) acting  *)
(* on a file system.  Names are strings, a path is a sequence of names,    *)
(* the file system is a function from the existing paths to their entry.   *)
(***************************************************************************)
EXTENDS Integers, Sequences, FiniteSets, TLC

VARIABLES fs, args, band_directory_map, pc, bandList, band, albumList, album,
          lib, fs0, calls, received, rerun, picks, fs1

vars == <<fs, args, band_directory_map, pc, bandList, band, albumList, album,
          lib, fs0, calls, received, rerun, picks, fs1>>

(***************************************************************************)
(* Program constants                                                       *)
(***************************************************************************)
FILE_EXT == ".mp3"

MAX_FILES_PER_DIRECTORY == 100

(***************************************************************************)
(* Bounds of the explored libraries                                        *)
(***************************************************************************)
\* Number of albums of the band whose batch sizes are enumerated.
MaxAlbums == 2

AlbumNames == <<"x", "y", "z", "w">>

\* Longest sequence of allocator calls issued for arbitrary bands and sizes.
MaxCalls == 4

\* Longest sequence of repetitions of one allocator call.
FillCalls == 101

\* The number of folders the device recognizes (module docstring).
MAX_FOLDERS == 100

\* Eligible tracks per album: none, less than half the cap, more than half
\* the cap, more than the cap.
BatchSizes == {0, 30, 60, MAX_FILES_PER_DIRECTORY + 1}

\* args.bands: None when -B is not given, else the list of names after -B.
None == [given |-> FALSE, names |-> <<>>]

List(names) == [given |-> TRUE, names |-> names]

BandFilters == {None, List(<<>>), List(<<"a_1", "A">>)}

DestKinds == {"absent", "empty", "populated", "same"}

(***************************************************************************)
(* Strings: str(), str.lower(), str.endswith()                             *)
(***************************************************************************)
Digits == "0123456789"

UpperCase == "ABCDEFGHIJKLMNOPQRSTUVWXYZ"

LowerCase == "abcdefghijklmnopqrstuvwxyz"

CharAt(s, i) == SubSeq(s, i, i)

RECURSIVE str(_)
str(n) == IF n < 10 THEN CharAt(Digits, n + 1)
          ELSE str(n \div 10) \o CharAt(Digits, (n % 10) + 1)

\* The lower-case counterpart of every upper-case letter.
LowerOf == [c \in {CharAt(UpperCase, i) : i \in 1..Len(UpperCase)} |->
              CharAt(LowerCase, CHOOSE i \in 1..Len(UpperCase) : CharAt(UpperCase, i) = c)]

LowerChar(c) == IF c \in DOMAIN LowerOf THEN LowerOf[c] ELSE c

RECURSIVE lower_chars(_)
lower_chars(s) == IF Len(s) = 0 THEN s
                  ELSE LowerChar(CharAt(s, 1)) \o lower_chars(SubSeq(s, 2, Len(s)))

endswith(s, suffix) ==
    /\ Len(s) >= Len(suffix)
    /\ SubSeq(s, Len(s) - Len(suffix) + 1, Len(s)) = suffix

(***************************************************************************)
(* File system: os.path and shutil.  A node is a file with its data or a   *)
(* directory with its entries; a path is the sequence of names leading to  *)
(* a node from the root.                                                   *)
(***************************************************************************)
NoEntries == [n \in {} |-> 0]

File(d) == [kind |-> "file", data |-> d, entries |-> NoEntries]

DirOf(entries) == [kind |-> "dir", data |-> <<>>, entries |-> entries]

Missing == [kind |-> "none", data |-> <<>>, entries |-> NoEntries]

join(path, name) == Append(path, name)

dirname(path) == SubSeq(path, 1, Len(path) - 1)

basename(path) == path[Len(path)]

RECURSIVE lookup(_, _)
lookup(node, path) ==
    IF path = <<>> THEN node
    ELSE IF node.kind = "dir" /\ Head(path) \in DOMAIN node.entries
         THEN lookup(node.entries[Head(path)], Tail(path))
         ELSE Missing

\* The tree with the node at path (whose parent is a directory) set to entry.
RECURSIVE put(_, _, _)
put(node, path, entry) ==
    IF Len(path) = 1
    THEN [node EXCEPT !.entries = (path[1] :> entry) @@ @]
    ELSE [node EXCEPT !.entries[Head(path)] = put(@, Tail(path), entry)]

\* The tree without the node at path (which exists).
RECURSIVE remove(_, _)
remove(node, path) ==
    IF Len(path) = 1
    THEN [node EXCEPT !.entries = [n \in (DOMAIN @) \ {path[1]} |-> @[n]]]
    ELSE [node EXCEPT !.entries[Head(path)] = remove(@, Tail(path))]

exists(f, path) == lookup(f, path).kind # "none"

isdir(f, path) == lookup(f, path).kind = "dir"

isfile(f, path) == lookup(f, path).kind = "file"

listdir(f, path) == DOMAIN lookup(f, path).entries

(***************************************************************************)
(* A machine state st = [fs, map, err, made] is threaded through the       *)
(* calls; err is TRUE once an exception has been raised (nothing catches   *)
(* one, so every later statement is skipped).                              *)
(***************************************************************************)
Raise(st) == [st EXCEPT !.err = TRUE]

\* shutil.rmtree: raises on a path that is not a directory, else removes
\* the directory and everything below it.
rmtree(st, path) ==
    IF ~isdir(st.fs, path) THEN Raise(st)
    ELSE [st EXCEPT !.fs = remove(st.fs, path)]

\* os.mkdir: raises when the path exists or its parent is not a directory.
mkdir(st, path) ==
    IF exists(st.fs, path) \/ ~isdir(st.fs, dirname(path)) THEN Raise(st)
    ELSE [st EXCEPT !.fs = put(st.fs, path, DirOf(NoEntries))]

\* shutil.copy: a directory target means "into that directory"; raises when
\* the source is not a readable file, when source and target are the same
\* file, or when the target cannot be opened for writing.
copy(st, src, dst) ==
    LET target == IF isdir(st.fs, dst) THEN join(dst, basename(src)) ELSE dst
    IN  IF st.err THEN st
        ELSE IF \/ ~isfile(st.fs, src)
                \/ target = src
                \/ isdir(st.fs, target)
                \/ ~isdir(st.fs, dirname(target))
             THEN Raise(st)
             ELSE [st EXCEPT !.fs = put(st.fs, target, File(lookup(st.fs, src).data))]

(***************************************************************************)
(* Folder allocator                                                        *)
(***************************************************************************)
\* A removal with os.rmdir, which raises on a directory that is not empty.
remove_directory_rmdir(st, directory) ==
    IF st.err THEN st
    ELSE IF exists(st.fs, directory)
         THEN IF lookup(st.fs, directory).entries = NoEntries
              THEN rmtree(st, directory) ELSE Raise(st)
         ELSE st

\* A removal that clears the directory above the one it is given.
remove_directory_parent(st, directory) ==
    IF st.err THEN st
    ELSE IF exists(st.fs, dirname(directory)) THEN rmtree(st, dirname(directory)) ELSE st

remove_directory(st, directory) ==
    IF st.err THEN st
    ELSE IF exists(st.fs, directory) THEN rmtree(st, directory) ELSE st

create_directory(st, directory) ==
    IF st.err THEN st
    ELSE IF ~exists(st.fs, directory) THEN mkdir(st, directory) ELSE st

\* A name that lacks the number.
new_directory_name_unnumbered(map, b, folder_count) ==
    IF folder_count = 1 THEN b ELSE b \o "_"

\* Lines 121-124: the name of the directory to create.  The lookup reads the
\* folder_count stored in the map before line 125 replaces the entry.
new_directory_name(map, b, folder_count) ==
    IF folder_count = 1 THEN b
    ELSE b \o "_" \o str(map[b].folder_count)

\* A map that keeps the entry of the last band only.
create_new_band_directory_one_entry(st, dest_path, b, folder_count, file_count) ==
    LET directory == new_directory_name(st.map, b, folder_count)
        entry == [directory |-> directory,
                  folder_count |-> folder_count,
                  file_count |-> file_count]
        st1 == [st EXCEPT !.map = (b :> entry)]
        st2 == remove_directory(st1, join(dest_path, directory))
        st3 == create_directory(st2, join(dest_path, directory))
    IN  IF st2.err THEN st2 ELSE [st3 EXCEPT !.made = Append(st3.made, directory)]

\* Lines 111-131.  st.made logs the directories whose removal went through,
\* for observation only.
create_new_band_directory(st, dest_path, b, folder_count, file_count) ==
    LET directory == new_directory_name(st.map, b, folder_count)
        entry == [directory |-> directory,
                  folder_count |-> folder_count,
                  file_count |-> file_count]
        st1 == [st EXCEPT !.map = (b :> entry) @@ st.map]
        st2 == remove_directory(st1, join(dest_path, directory))
        st3 == create_directory(st2, join(dest_path, directory))
    IN  IF st2.err THEN st2 ELSE [st3 EXCEPT !.made = Append(st3.made, directory)]

\* A projection that forgets the files already counted.
projected_file_count_unsummed(map, b, files_in_album) == files_in_album

\* Line 102.
projected_file_count(map, b, files_in_album) ==
    map[b].file_count + files_in_album

\* A call that numbers a new folder after the bands in the map.
get_band_dest_directory_band_count(st, dest_path, b, files_in_album) ==
    LET st1 == IF b \notin DOMAIN st.map
               THEN create_new_band_directory(st, dest_path, b, 1, files_in_album)
               ELSE st
        file_count == projected_file_count(st1.map, b, files_in_album)
    IN  IF st1.err THEN st1
        ELSE IF file_count > MAX_FILES_PER_DIRECTORY
             THEN create_new_band_directory(st1, dest_path, b,
                                            Cardinality(DOMAIN st1.map) + 1, files_in_album)
             ELSE [st1 EXCEPT !.map[b].file_count = file_count]

\* A call that counts a new folder as empty.
get_band_dest_directory_fresh_count(st, dest_path, b, files_in_album) ==
    LET st1 == IF b \notin DOMAIN st.map
               THEN create_new_band_directory(st, dest_path, b, 1, files_in_album)
               ELSE st
        file_count == projected_file_count(st1.map, b, files_in_album)
    IN  IF st1.err THEN st1
        ELSE IF file_count > MAX_FILES_PER_DIRECTORY
             THEN create_new_band_directory(st1, dest_path, b,
                                            st1.map[b].folder_count + 1, 0)
             ELSE [st1 EXCEPT !.map[b].file_count = file_count]

\* The returned directory is st.map[b].directory of the result.
get_band_dest_directory(st, dest_path, b, files_in_album) ==
    LET st1 == IF b \notin DOMAIN st.map
               THEN create_new_band_directory(st, dest_path, b, 1, files_in_album)
               ELSE st
        file_count == projected_file_count(st1.map, b, files_in_album)
    IN  IF st1.err THEN st1
        ELSE IF file_count > MAX_FILES_PER_DIRECTORY
             THEN create_new_band_directory(st1, dest_path, b,
                                            st1.map[b].folder_count + 1, files_in_album)
             ELSE [st1 EXCEPT !.map[b].file_count = file_count]

(***************************************************************************)
(* The explored inputs: a music library, a destination and the arguments   *)
(***************************************************************************)
music_root == <<"Music">>

alpine_root == <<"Alpine">>

\* The n eligible tracks of an album; the first has an upper-case name.
SongNames(n) == {IF i = 1 THEN "T1.MP3" ELSE "t" \o str(i) \o FILE_EXT : i \in 1..n}

\* str.lower(), with the result for the names of the explored libraries
\* computed once.
LowerOfName == [s \in SongNames(MAX_FILES_PER_DIRECTORY + 1)
                        \cup {"notes.txt", "live.mp3", "cover.mp3", "index.mp3"} |->
                  lower_chars(s)]

lower(s) == IF s \in DOMAIN LowerOfName THEN LowerOfName[s] ELSE lower_chars(s)

\* A library l maps each band to the number of eligible tracks of each of
\* its albums.
EnumeratedAlbums == {AlbumNames[i] : i \in 1..MaxAlbums}

Libraries ==
    {("A" :> a) @@ ("A_1" :> ("x" :> 40)) : a \in [EnumeratedAlbums -> BatchSizes]}

\* Besides its tracks every album holds a text file and a directory whose
\* name ends in .mp3; band A_1 holds a plain file next to its album, and so
\* does the music directory.  The data of a file is the path it had
\* before the run.
AlbumDir(b, a, n) ==
    DirOf([s \in SongNames(n) \cup {"notes.txt", "live.mp3"} |->
             IF s = "live.mp3"
             THEN DirOf("deep.mp3" :> File(<<"Music", b, a, s, "deep.mp3">>))
             ELSE File(<<"Music", b, a, s>>)])

BandDir(l, b) ==
    DirOf([a \in DOMAIN l[b] \cup (IF b = "A_1" THEN {"cover.mp3"} ELSE {}) |->
             IF a = "cover.mp3" THEN File(<<"Music", b, a>>)
             ELSE AlbumDir(b, a, l[b][a])])

MusicDir(l) ==
    DirOf([b \in DOMAIN l \cup {"index.mp3"} |->
             IF b = "index.mp3" THEN File(<<"Music", b>>) ELSE BandDir(l, b)])

\* What the destination holds before the run.
OldFolder(name) == DirOf("old.mp3" :> File(<<"Alpine", name, "old.mp3">>))

AlpineDir(kind) ==
    IF kind = "populated"
    THEN DirOf([n \in {"A", "A_1", "Keep", "old.mp3"} |->
                  IF n = "old.mp3" THEN File(<<"Alpine", n>>) ELSE OldFolder(n)])
    ELSE DirOf(NoEntries)

InitialFs(l, kind) ==
    IF kind \in {"absent", "same"}
    THEN DirOf("Music" :> MusicDir(l))
    ELSE DirOf(("Music" :> MusicDir(l)) @@ ("Alpine" :> AlpineDir(kind)))

\* The destination and the band filter of a run.
Setups ==
    {<<"populated", bands>> : bands \in BandFilters}
    \cup {<<kind, None>> : kind \in DestKinds}

(***************************************************************************)
(* Traversal driver: main                                                  *)
(***************************************************************************)
Range(seq) == {seq[i] : i \in 1..Len(seq)}

\* Line 55: not bands or band in bands.
band_requested(bands, b) ==
    \/ ~bands.given
    \/ bands.names = <<>>
    \/ b \in Range(bands.names)

\* A check that takes every file for a song.
is_song_any_file(node, song) == node.kind = "file"

\* Line 70: song_path names the entry called song of the listed album
\* directory, and node is that entry.
is_song(node, song) ==
    /\ node.kind = "file"
    /\ endswith(lower(song), FILE_EXT)

\* Lines 62-71; the songs of an entry that is not a directory are never
\* collected.
songs_to_transfer(f, album_path) ==
    LET entries == lookup(f, album_path).entries
    IN  IF isdir(f, album_path)
        THEN {song \in DOMAIN entries : is_song(entries[song], song)}
        ELSE {}

\* A destination name built from the lower-cased file name.
dest_song_name_lowered(a, song) == a \o "-" \o lower(song)

\* Line 81.
dest_song_name(a, song) == a \o "-" \o song

\* Lines 79-83, one copy per song, in some order.
RECURSIVE copy_each(_, _, _, _, _)
copy_each(st, songs, album_path, dest_directory, a) ==
    IF songs = {} \/ st.err THEN st
    ELSE LET song == CHOOSE s \in songs : TRUE
         IN  copy_each(copy(st, join(album_path, song),
                            join(dest_directory, dest_song_name(a, song))),
                       songs \ {song}, album_path, dest_directory, a)

\* Lines 79-83.  When the songs are copied into an existing directory other
\* than their own and no target is a directory, no copy raises and none
\* reads or replaces what another one writes: the loop then amounts to
\* writing all the targets at once.  Otherwise the copies are made in turn.
copy_songs(st, songs, album_path, dest_directory, a) ==
    LET sources == lookup(st.fs, album_path).entries
        targets == {<<dest_song_name(a, song), song>> : song \in songs}
        old == lookup(st.fs, dest_directory).entries
    IN  IF songs = {} \/ st.err THEN st
        ELSE IF /\ isdir(st.fs, dest_directory)
                /\ dest_directory # album_path
                /\ \A song \in songs : isfile(st.fs, join(album_path, song))
                /\ \A t \in targets : t[1] \in DOMAIN old => old[t[1]].kind # "dir"
             THEN [st EXCEPT !.fs =
                      put(@, dest_directory,
                          DirOf([n \in DOMAIN old \cup {t[1] : t \in targets} |->
                                   IF n \notin DOMAIN old \/ \E t \in targets : t[1] = n
                                   THEN File(sources[(CHOOSE t \in targets : t[1] = n)[2]].data)
                                   ELSE old[n]]))]
             ELSE copy_each(st, songs, album_path, dest_directory, a)

\* The directory listings are in no particular order, but a second run on
\* the same directories gets them in the order of the first: picks holds
\* the entries in the order the first run took them, and the second run
\* takes them in that order.  rerun is "off" when the program is run once.
Pick(name) ==
    CASE rerun = "off" -> picks' = picks
      [] rerun = "first" -> picks' = Append(picks, name)
      [] rerun = "second" -> picks # <<>> /\ Head(picks) = name /\ picks' = Tail(picks)

InitWith(setups, mode) ==
    /\ lib \in Libraries
    /\ \E setup \in setups :
          /\ fs = InitialFs(lib, setup[1])
          /\ args = [music_dir |-> music_root,
                     dest_dir |-> IF setup[1] = "same" THEN music_root ELSE alpine_root,
                     bands |-> setup[2]]
    /\ fs0 = fs
    /\ band_directory_map = [b \in {} |-> 0]
    /\ pc = "start"
    /\ bandList = {}
    /\ band = ""
    /\ albumList = {}
    /\ album = ""
    /\ calls = <<>>
    /\ received = [d \in {} |-> <<>>]
    /\ rerun = mode
    /\ picks = <<>>
    /\ fs1 = fs

Init == InitWith(Setups, "off")

\* Lines 39-51: the arguments are read and the music directory is listed.
Start ==
    /\ pc = "start"
    /\ band_directory_map' = [b \in {} |-> 0]
    /\ bandList' = listdir(fs, args.music_dir)
    /\ pc' = "bands"
    /\ UNCHANGED <<fs, args, band, albumList, album,
                   lib, fs0, calls, received, rerun, picks, fs1>>

\* Lines 51-58: the next band is a directory and is requested.
EnterBand ==
    /\ pc = "bands"
    /\ \E b \in bandList :
          /\ isdir(fs, join(args.music_dir, b))
          /\ band_requested(args.bands, b)
          /\ band' = b
          /\ bandList' = bandList \ {b}
          /\ albumList' = listdir(fs, join(args.music_dir, b))
          /\ Pick(b)
    /\ pc' = "albums"
    /\ UNCHANGED <<fs, args, band_directory_map, album, lib, fs0, calls, received,
                   rerun, fs1>>

\* Lines 51-55: the next entry is no directory or is not requested.
SkipBand ==
    /\ pc = "bands"
    /\ \E b \in bandList :
          /\ ~(isdir(fs, join(args.music_dir, b)) /\ band_requested(args.bands, b))
          /\ band' = b
          /\ bandList' = bandList \ {b}
          /\ Pick(b)
    /\ UNCHANGED <<fs, args, band_directory_map, pc, albumList, album,
                   lib, fs0, calls, received, rerun, fs1>>

\* The batches each destination folder has received since it was last
\* (re)created: the folders in made start empty.
Started(rec, made) ==
    [d \in DOMAIN rec \cup Range(made) |-> IF d \in Range(made) THEN <<>> ELSE rec[d]]

Receive(rec, folder, n) ==
    IF folder \in DOMAIN rec THEN [rec EXCEPT ![folder] = Append(@, n)]
    ELSE (folder :> <<n>>) @@ rec

\* Lines 58-83: an album with songs to transfer.  An exception raised by the
\* allocator or by a copy ends the program.
TransferAlbum ==
    /\ pc = "albums"
    /\ \E a \in albumList :
          LET album_path == join(join(args.music_dir, band), a)
              songs == songs_to_transfer(fs, album_path)
              st0 == [fs |-> fs, map |-> band_directory_map, err |-> FALSE, made |-> <<>>]
              st1 == get_band_dest_directory(st0, args.dest_dir, band, Cardinality(songs))
              band_dest_directory == st1.map[band].directory
              st2 == copy_songs(st1, songs, album_path,
                                join(args.dest_dir, band_dest_directory), a)
          IN  /\ songs # {}
              /\ album' = a
              /\ albumList' = albumList \ {a}
              /\ fs' = st2.fs
              /\ band_directory_map' = st2.map
              /\ pc' = IF st2.err THEN "failed" ELSE "albums"
              /\ calls' = IF st1.err THEN calls
                           ELSE Append(calls, [band |-> band, album |-> a,
                                               size |-> Cardinality(songs),
                                               folder |-> band_dest_directory])
              /\ received' = IF st1.err THEN Started(received, st1.made)
                              ELSE Receive(Started(received, st1.made),
                                           band_dest_directory, Cardinality(songs))
              /\ Pick(a)
    /\ UNCHANGED <<args, bandList, band, lib, fs0, rerun, fs1>>

\* Lines 58-74: an entry that is no directory, or an album without songs.
SkipAlbum ==
    /\ pc = "albums"
    /\ \E a \in albumList :
          /\ songs_to_transfer(fs, join(join(args.music_dir, band), a)) = {}
          /\ album' = a
          /\ albumList' = albumList \ {a}
          /\ Pick(a)
    /\ UNCHANGED <<fs, args, band_directory_map, pc, bandList, band,
                   lib, fs0, calls, received, rerun, fs1>>

\* Line 58: the albums of the band are exhausted.
EndBand ==
    /\ pc = "albums"
    /\ albumList = {}
    /\ pc' = "bands"
    /\ UNCHANGED <<fs, args, band_directory_map, bandList, band, albumList, album,
                   lib, fs0, calls, received, rerun, picks, fs1>>

\* Line 51: the bands are exhausted, main returns.
Finish ==
    /\ pc = "bands"
    /\ bandList = {}
    /\ pc' = "done"
    /\ UNCHANGED <<fs, args, band_directory_map, bandList, band, albumList, album,
                   lib, fs0, calls, received, rerun, picks, fs1>>

Next ==
    \/ Start
    \/ EnterBand
    \/ SkipBand
    \/ TransferAlbum
    \/ SkipAlbum
    \/ EndBand
    \/ Finish

Spec == Init /\ [][Next]_vars

\* The program is run a second time with the same arguments, on what the
\* first run has left.
Rerun ==
    /\ pc = "done"
    /\ rerun = "first"
    /\ rerun' = "second"
    /\ pc' = "start"
    /\ fs1' = fs
    /\ fs0' = fs
    /\ band' = ""
    /\ album' = ""
    /\ calls' = <<>>
    /\ received' = [d \in {} |-> <<>>]
    /\ UNCHANGED <<fs, args, band_directory_map, bandList, albumList, lib, picks>>

TwiceSetups == {<<"empty", None>>}

InitTwice == InitWith(TwiceSetups, "first")

NextTwice == Next \/ Rerun

SpecTwice == InitTwice /\ [][NextTwice]_vars

(***************************************************************************)
(* The allocator called on its own: get_band_dest_directory with an        *)
(* existing, empty destination and a new band_directory_map, then called   *)
(* again and again with the map it has updated.                            *)
(***************************************************************************)
AllocBands == {"A", "A_1"}

AllocSizes == BatchSizes \ {0}

InitAlloc ==
    /\ lib = [b \in {} |-> 0]
    /\ fs = DirOf("Alpine" :> AlpineDir("empty"))
    /\ args = [music_dir |-> music_root, dest_dir |-> alpine_root, bands |-> None]
    /\ fs0 = fs
    /\ band_directory_map = [b \in {} |-> 0]
    /\ pc = "alloc"
    /\ bandList = {}
    /\ band = ""
    /\ albumList = {}
    /\ album = ""
    /\ calls = <<>>
    /\ received = [d \in {} |-> <<>>]
    /\ rerun = "off"
    /\ picks = <<>>
    /\ fs1 = fs

\* Lines 86-108: one call for band b with files_in_album files.
Call(b, files_in_album) ==
    LET st0 == [fs |-> fs, map |-> band_directory_map, err |-> FALSE, made |-> <<>>]
        st1 == get_band_dest_directory(st0, args.dest_dir, b, files_in_album)
    IN  /\ band' = b
        /\ fs' = st1.fs
        /\ band_directory_map' = st1.map
        /\ pc' = IF st1.err THEN "failed" ELSE "alloc"
        /\ calls' = IF st1.err THEN calls
                     ELSE Append(calls, [band |-> b, album |-> "",
                                         size |-> files_in_album,
                                         folder |-> st1.map[b].directory])
        /\ received' = IF st1.err THEN Started(received, st1.made)
                        ELSE Receive(Started(received, st1.made),
                                     st1.map[b].directory, files_in_album)
        /\ UNCHANGED <<args, bandList, albumList, album, lib, fs0, rerun, picks, fs1>>

\* Any band, any batch size.
Request ==
    /\ pc = "alloc"
    /\ Len(calls) < MaxCalls
    /\ \E b \in AllocBands, n \in AllocSizes : Call(b, n)

SpecAlloc == InitAlloc /\ [][Request]_vars

\* The band and the batch size of the first call, over and over.
Repeat ==
    /\ pc = "alloc"
    /\ Len(calls) < FillCalls
    /\ \E b \in AllocBands, n \in AllocSizes :
          /\ calls # <<>> => (calls[1].band = b /\ calls[1].size = n)
          /\ Call(b, n)

SpecFill == InitAlloc /\ [][Repeat]_vars

(***************************************************************************)
(* Properties                                                              *)
(***************************************************************************)
RECURSIVE Total(_)
Total(sizes) == IF sizes = <<>> THEN 0 ELSE Head(sizes) + Total(Tail(sizes))

RECURSIVE TrackCount(_, _)
TrackCount(l, albums) ==
    IF albums = {} THEN 0
    ELSE LET a == CHOOSE x \in albums : TRUE
         IN  l[a] + TrackCount(l, albums \ {a})

\* All the eligible tracks of band b in the library.
BandTotal(b) == TrackCount(lib[b], DOMAIN lib[b])

LastCall == calls[Len(calls)]

\* The step is an AssignFolder call that returned.
Assigns == Len(calls') = Len(calls) + 1

dest_root == lookup(fs, args.dest_dir)

\* C1: every AssignFolder call for a band whose batches sum to at most 100
\* files returns the folder named like the band.
C1_SmallBandOneFolder ==
    \A i \in 1..Len(calls) :
        BandTotal(calls[i].band) <= MAX_FILES_PER_DIRECTORY
            => calls[i].folder = calls[i].band

\* The files a destination folder holds.
Held(d) == IF isdir(fs, join(args.dest_dir, d))
           THEN Cardinality(DOMAIN lookup(fs, join(args.dest_dir, d)).entries)
           ELSE 0

FolderName(b, k) == IF k = 1 THEN b ELSE b \o "_" \o str(k)

\* C3: after every AssignFolder call the current folder of a band is named
\* <band> for sequence 1 and <band>_<sequence> for a higher sequence.
C3_FolderNaming ==
    \A b \in DOMAIN band_directory_map :
        band_directory_map[b].directory = FolderName(b, band_directory_map[b].folder_count)

\* C4: a call for a band that already has a folder returns that folder
\* unless the files assigned to it plus the batch exceed 100, and returns a
\* new folder exactly in that case.
C4_StableUntilOverflow ==
    [][(Assigns /\ band \in DOMAIN band_directory_map)
        => LET previous == band_directory_map[band].directory
               assigned == IF previous \in DOMAIN received THEN Total(received[previous]) ELSE 0
           IN  (LastCall'.folder = previous)
                 <=> ~(assigned + LastCall'.size > MAX_FILES_PER_DIRECTORY)]_vars

\* The node old is still there in new, with all that was below it.
RECURSIVE Preserved(_, _)
Preserved(old, new) ==
    /\ new.kind = old.kind
    /\ new.data = old.data
    /\ \A n \in DOMAIN old.entries :
          n \in DOMAIN new.entries /\ Preserved(old.entries[n], new.entries[n])

old_dest_root == lookup(fs0, args.dest_dir)

\* C5: the run removes no file or directory that was under the destination
\* before the run.
C5_NothingRemoved ==
    exists(fs0, args.dest_dir) => Preserved(old_dest_root, dest_root)

\* C5, amended: what was under the destination before the run is still
\* there unless it is a folder the run has started, and a folder the run
\* has started holds nothing but copies of tracks of the music directory.
C5_OnlyStartedFoldersCleared ==
    /\ \A n \in DOMAIN old_dest_root.entries :
          n \notin DOMAIN received
              => /\ n \in DOMAIN dest_root.entries
                 /\ Preserved(old_dest_root.entries[n], dest_root.entries[n])
    /\ \A d \in DOMAIN received :
          \A m \in DOMAIN lookup(fs, join(args.dest_dir, d)).entries :
              LET node == lookup(fs, join(join(args.dest_dir, d), m))
              IN  /\ node.kind = "file"
                  /\ Len(node.data) = 4
                  /\ node.data[1] = "Music"

\* The run is over, it has cleared the old folder of band A and has left
\* the folder of no band alone.
C5_Witness ==
    /\ pc = "done"
    /\ exists(fs0, <<"Alpine", "A", "old.mp3">>)
    /\ "A" \in DOMAIN received
    /\ ~exists(fs, <<"Alpine", "A", "old.mp3">>)
    /\ exists(fs, <<"Alpine", "Keep", "old.mp3">>)
    /\ exists(fs, <<"Alpine", "old.mp3">>)

\* C6: with a band filter, the bands processed are exactly the listed ones,
\* and the folder of a band that is not listed is neither created nor
\* removed.
C6_FilterExact ==
    args.bands.given =>
        /\ \A i \in 1..Len(calls) : calls[i].band \in Range(args.bands.names)
        /\ pc = "done" =>
              \A b \in DOMAIN lib \cap Range(args.bands.names) :
                  BandTotal(b) > 0 => \E i \in 1..Len(calls) : calls[i].band = b
        /\ \A b \in DOMAIN lib \ Range(args.bands.names) : b \notin DOMAIN received

\* The step handles an album, which album' then names.
HandlesAlbum == pc = "albums" /\ albumList' # albumList

\* No eligible track is in album a of band b.
NoTracks(b, a) == a \in DOMAIN lib[b] => lib[b][a] = 0

\* C7: handling an album without eligible tracks makes no AssignFolder call
\* and changes neither the allocation state nor the file system.
C7_EmptyAlbumNoCall ==
    [][(HandlesAlbum /\ NoTracks(band, album'))
        => /\ calls' = calls
           /\ band_directory_map' = band_directory_map
           /\ received' = received
           /\ fs' = fs]_vars

\* An album without eligible tracks has been handled for a band that has no
\* allocation state.
C7_Witness ==
    /\ pc = "albums"
    /\ album \in DOMAIN lib[band]
    /\ album \notin albumList
    /\ lib[band][album] = 0
    /\ band \notin DOMAIN band_directory_map
    /\ calls = <<>>
    /\ fs = fs0

\* C8: when the copies of a batch are done, every track of the batch is at
\* <folder returned>/<album>-<file name> under the destination, with the
\* content of the track.
C8_CopiedUnderAlbumName ==
    [][(Assigns /\ pc' # "failed")
        => LET c == LastCall'
           IN  /\ c.folder = band_directory_map'[c.band].directory
               /\ \A s \in SongNames(lib[c.band][c.album]) :
                     lookup(fs', join(join(args.dest_dir, c.folder), c.album \o "-" \o s))
                        = File(<<"Music", c.band, c.album, s>>)]_vars

\* The last batch went to an overflow folder, which holds its track with
\* the upper-case name.
C8_Witness ==
    /\ calls # <<>>
    /\ pc # "failed"
    /\ LastCall.folder # LastCall.band
    /\ LastCall.size > 1
    /\ isfile(fs, <<"Alpine", LastCall.folder, LastCall.album \o "-T1.MP3">>)
    /\ Held(LastCall.folder) = LastCall.size

\* C9: the music directory is as it was before the run.
C9_SourceUntouched ==
    lookup(fs, args.music_dir) = lookup(fs0, args.music_dir)

\* C10: when the destination does not exist before the run, the run does
\* not fail, and the destination exists when the run is over.
C10_DestCreated ==
    ~exists(fs0, args.dest_dir)
        => /\ pc # "failed"
           /\ pc = "done" => isdir(fs, args.dest_dir)

\* C11: the destination never holds more than 100 folders.
C11_FolderCeiling ==
    Cardinality(DOMAIN dest_root.entries) <= MAX_FOLDERS

\* C12: a second run on the unchanged music directory, with the listings
\* in the same order, does not fail and leaves under the destination what
\* the first run left.
C12_SecondRunSameTree ==
    rerun = "second"
        => /\ pc # "failed"
           /\ pc = "done" => dest_root = lookup(fs1, args.dest_dir)

\* The second run is over; it has cleared and filled again an overflow
\* folder.
C12_Witness ==
    /\ rerun = "second"
    /\ pc = "done"
    /\ calls # <<>>
    /\ LastCall.folder # LastCall.band
    /\ Held(LastCall.folder) > 0
    /\ dest_root = lookup(fs1, args.dest_dir)

\* C13: while a band is being handled, its file_count is the sum of the
\* sizes of the batches assigned to its current folder.
C13_FileCountIsAssigned ==
    (calls # <<>> /\ pc # "failed")
        => LET entry == band_directory_map[LastCall.band]
           IN  /\ entry.directory \in DOMAIN received
               /\ entry.file_count = Total(received[entry.directory])

\* C14: a call leaves the folder_count of its band at least 1, one above
\* what it was when the call returns another folder than the band had, and
\* what it was when it returns the same folder; the first call of a band
\* leaves it at the number of folders it started; the folder_count of the
\* other bands stays.
C14_SequenceSteps ==
    [][Assigns
        => LET c == LastCall'
               after == band_directory_map'[c.band].folder_count
           IN  /\ after >= 1
               /\ \A o \in DOMAIN band_directory_map \ {c.band} :
                     band_directory_map'[o].folder_count = band_directory_map[o].folder_count
               /\ c.band \in DOMAIN band_directory_map
                     => after = IF c.folder # band_directory_map[c.band].directory
                                THEN band_directory_map[c.band].folder_count + 1
                                ELSE band_directory_map[c.band].folder_count
               /\ c.band \notin DOMAIN band_directory_map
                     => after = IF c.folder # c.band THEN 2 ELSE 1]_vars

\* After three calls or more one band is at its third folder and another
\* band still at its first.
C14_Witness ==
    /\ Len(calls) >= 3
    /\ \E b, o \in DOMAIN band_directory_map :
          /\ band_directory_map[b].folder_count = 3
          /\ band_directory_map[o].folder_count = 1

\* The folders allocated to band b by the calls so far.
FoldersOf(b) == {b} \cup {calls[i].folder : i \in {j \in 1..Len(calls) : calls[j].band = b}}

\* C15: a call for a band that has a folder returns a folder allocated to
\* the band earlier only if it is the folder the band had, which then still
\* holds what it held: the band never goes back to, and never creates
\* again, a folder it was allocated earlier.
C15_NoFolderReused ==
    [][(Assigns /\ LastCall'.band \in DOMAIN band_directory_map)
        => LET c == LastCall'
               path == join(args.dest_dir, c.folder)
           IN  c.folder \in FoldersOf(c.band)
                 => /\ c.folder = band_directory_map[c.band].directory
                    /\ isdir(fs, path)
                    /\ Preserved(lookup(fs, path), lookup(fs', path))]_vars

\* A band has been allocated three folders, and the two it got files for
\* hold them.
C15_Witness ==
    /\ Len(calls) >= 2
    /\ pc # "failed"
    /\ calls[1].band = calls[2].band
    /\ Cardinality({calls[1].band, calls[1].folder, calls[2].folder}) = 3
    /\ Held(calls[1].folder) = calls[1].size
    /\ Held(calls[2].folder) = calls[2].size

\* The calls so far for band b, as indices into calls.
CallsOf(b) == {i \in 1..Len(calls) : calls[i].band = b}

\* The largest member of a non-empty set of numbers.
Last(S) == CHOOSE i \in S : \A j \in S : j <= i

\* A batch of more than MAX_FILES_PER_DIRECTORY files.
Oversized(n) == n > MAX_FILES_PER_DIRECTORY

\* C16: a batch of more than 100 files goes as a whole to one folder that
\* the call starts and that holds, once the copies are made, exactly the
\* files of the batch; the next batch of the band goes to another folder
\* that its call starts; and no folder that received a batch of more than
\* 100 files has received another batch.
C16_OversizedBatchAlone ==
    [][/\ Assigns
          => LET c == LastCall'
             IN  /\ Oversized(c.size)
                    => /\ c.band \in DOMAIN band_directory_map
                             => c.folder # band_directory_map[c.band].directory
                       /\ received'[c.folder] = <<c.size>>
                       /\ (pc = "albums" /\ pc' # "failed")
                             => Cardinality(DOMAIN lookup(fs', join(args.dest_dir, c.folder)).entries)
                                   = c.size
                 /\ (CallsOf(c.band) # {} /\ Oversized(calls[Last(CallsOf(c.band))].size))
                    => /\ c.folder # calls[Last(CallsOf(c.band))].folder
                       /\ received'[c.folder] = <<c.size>>
       /\ \A d \in DOMAIN received' :
             (\E i \in 1..Len(received'[d]) : Oversized(received'[d][i]))
                 => Len(received'[d]) = 1]_vars

\* A band's batch of more than 100 files sits alone in one folder and the
\* band's next batch sits in another.
C16_Witness ==
    /\ Len(calls) >= 2
    /\ pc # "failed"
    /\ calls[1].band = calls[2].band
    /\ Oversized(calls[1].size)
    /\ calls[1].folder # calls[2].folder
    /\ Held(calls[1].folder) = calls[1].size
    /\ Held(calls[2].folder) = calls[2].size

\* The map entries a band gets from calls with the given batch sizes when
\* no call for another band is made between them.
RECURSIVE Alone(_, _, _)
Alone(st, b, sizes) ==
    IF sizes = <<>> THEN <<>>
    ELSE LET st1 == get_band_dest_directory(st, args.dest_dir, b, Head(sizes))
         IN  <<st1.map[b]>> \o Alone(st1, b, Tail(sizes))

\* The calls made so far for band b, in order.
RECURSIVE CallsFor(_, _)
CallsFor(cs, b) ==
    IF cs = <<>> THEN <<>>
    ELSE IF Head(cs).band = b THEN <<Head(cs)>> \o CallsFor(Tail(cs), b)
         ELSE CallsFor(Tail(cs), b)

\* C17: a call for a band adds or changes the map entry of that band only,
\* and the folders returned for a band and its map entry are those the
\* band gets from its own calls alone, whatever calls for other bands are
\* made between them.
C17_OtherBandsUntouched ==
    [][Assigns
        => LET c == LastCall'
               own == CallsFor(calls', c.band)
               alone == Alone([fs |-> fs0, map |-> [b \in {} |-> 0],
                               err |-> FALSE, made |-> <<>>],
                              c.band, [i \in 1..Len(own) |-> own[i].size])
           IN  /\ DOMAIN band_directory_map' = DOMAIN band_directory_map \cup {c.band}
               /\ \A o \in DOMAIN band_directory_map \ {c.band} :
                     band_directory_map'[o] = band_directory_map[o]
               /\ \A i \in 1..Len(own) : own[i].folder = alone[i].directory
               /\ band_directory_map'[c.band] = alone[Len(own)]]_vars

\* Calls for two bands alternate, and the band called first has moved to
\* another folder while the other band kept its entry.
C17_Witness ==
    /\ Len(calls) >= 3
    /\ calls[1].band = calls[3].band
    /\ calls[2].band # calls[1].band
    /\ calls[3].folder # calls[1].folder
    /\ band_directory_map[calls[2].band].directory = calls[2].folder

\* C18: at the end of a run every destination folder the run created holds
\* at least one file.
C18_NoFolderLeftEmpty ==
    pc = "done" => \A d \in DOMAIN received : Held(d) > 0

\* C19: no step of a run removes or replaces a file of a destination folder
\* the run has created, and at the end of the run these folders hold one
\* file per track copied.
C19_CopiedTracksKept ==
    [][/\ \A d \in DOMAIN received :
             isdir(fs, join(args.dest_dir, d))
                 => /\ isdir(fs', join(args.dest_dir, d))
                    /\ Preserved(lookup(fs, join(args.dest_dir, d)),
                                 lookup(fs', join(args.dest_dir, d)))
       /\ pc' = "done"
             => \A d \in DOMAIN received' : Held(d)' = Total(received'[d])]_vars

====
